---- MODULE Spec2Model ----
(***************************************************************************)
(* Model of code-workspaces-cleaner-upper (src/src/main.rs): the recursive *)
(* scan for Cargo projects (scan_for_target_dirs), the age check of a      *)
(* target directory (check_target_dir_date) and main.                      *)
(*                                                                         *)
(* The file system is the environment.  A node is named by its canonical   *)
(* absolute path; a path handed around by the program (a PathBuf) is the   *)
(* sequence of directory entries it names below args.path.  The program is *)
(* run several times in a row on the same file system (invocations).       *)
(* Times are counted in days; Now is the time of the run.                  *)
(***************************************************************************)
EXTENDS Integers, Sequences, FiniteSets, TLC

\* ------------------------------------------------------------------ bounds
MaxTime == 2        \* Now; modification times range over 0..MaxTime
MaxLen == 2         \* file lengths range over 1..MaxLen
MaxDepth == 6       \* cap on the number of active calls of scan_for_target_dirs
MaxSteps == 80      \* steps one run of main takes at most

VARIABLES
    fs,           \* the file system's attributes that the program never changes
    live,         \* the nodes that exist
    invocations,  \* the command lines still to run, in order
    run,          \* number of runs of main started so far
    args,         \* Args of the current run
    cutoff,       \* main's cutoff: None or Some(time)
    pc,           \* "idle", "scanning", "done", "exited" (exit(1)), "panicked"
    frames,       \* the active calls of scan_for_target_dirs, innermost last
    stack,        \* main's stack: Vec<PathBuf>
    size,         \* main's size, the value returned by the top-level call
    steps,        \* number of steps the current run has taken
    calls,        \* per run: the paths scan_for_target_dirs was called with
    leaves,       \* per run: the paths whose listing showed Cargo.toml and target
    reports,      \* per run: the "Deleting ..." lines printed, <<path, size>>
    removals,     \* per run: the paths passed to remove_dir_all
    warnings,     \* per run: the chains printed by the circular-symlink warning
    before,       \* per run: the nodes that existed when the run started
    results       \* per run: its Args, how it ended, and its size

vars == <<fs, live, invocations, run, args, cutoff, pc, frames, stack, size, steps,
          calls, leaves, reports, removals, warnings, before, results>>

None == <<>>
Some(x) == <<x>>

\* ------------------------------------------------------------- file system
Links == {"L1", "L2"}
Dangling == "/nowhere"

\* The fixed part of the trees: parent, file name and kind of each node.
Skel ==
    "/w"                :> [parent |-> "/",            name |-> "w",          kind |-> "dir"]  @@
    "/w/Cargo.toml"     :> [parent |-> "/w",           name |-> "Cargo.toml", kind |-> "file"] @@
    "/w/target"         :> [parent |-> "/w",           name |-> "target",     kind |-> "dir"]  @@
    "/w/target/f"       :> [parent |-> "/w/target",    name |-> "f",          kind |-> "file"] @@
    "/w/a"              :> [parent |-> "/w",           name |-> "a",          kind |-> "dir"]  @@
    "/w/a/Cargo.toml"   :> [parent |-> "/w/a",         name |-> "Cargo.toml", kind |-> "file"] @@
    "/w/a/target"       :> [parent |-> "/w/a",         name |-> "target",     kind |-> "dir"]  @@
    "/w/a/target/f"     :> [parent |-> "/w/a/target",  name |-> "f",          kind |-> "file"] @@
    "/w/a/target/sub"   :> [parent |-> "/w/a/target",  name |-> "sub",        kind |-> "dir"]  @@
    "/w/a/target/sub/g" :> [parent |-> "/w/a/target/sub", name |-> "g",       kind |-> "file"] @@
    "/w/a/n"            :> [parent |-> "/w/a",         name |-> "n",          kind |-> "dir"]  @@
    "/w/a/n/Cargo.toml" :> [parent |-> "/w/a/n",       name |-> "Cargo.toml", kind |-> "file"] @@
    "/w/a/n/target"     :> [parent |-> "/w/a/n",       name |-> "target",     kind |-> "dir"]  @@
    "/w/a/n/target/k"   :> [parent |-> "/w/a/n/target", name |-> "k",         kind |-> "file"] @@
    "/w/b"              :> [parent |-> "/w",           name |-> "b",          kind |-> "dir"]  @@
    "/w/b/Cargo.toml"   :> [parent |-> "/w/b",         name |-> "Cargo.toml", kind |-> "file"] @@
    "/w/b/target"       :> [parent |-> "/w/b",         name |-> "target",     kind |-> "dir"]  @@
    "/w/b/target/h"     :> [parent |-> "/w/b/target",  name |-> "h",          kind |-> "file"]

Node == DOMAIN Skel \cup Links
RootDir == "/w"

\* One listing order of all nodes; a directory is listed in this order or in
\* the reverse one (read_dir promises no order).
AllNodes ==
    << "/w", "/w/Cargo.toml", "L1", "/w/a", "/w/a/Cargo.toml", "/w/a/target",
       "/w/a/target/f", "/w/a/target/sub", "/w/a/target/sub/g", "/w/a/n",
       "/w/a/n/Cargo.toml", "/w/a/n/target", "/w/a/n/target/k", "L2", "/w/b",
       "/w/b/Cargo.toml", "/w/b/target", "/w/b/target/h", "/w/target",
       "/w/target/f" >>

Reverse(s) == [i \in 1..Len(s) |-> s[Len(s) + 1 - i]]

Kind(n) == IF n \in Links THEN "link" ELSE Skel[n].kind
Name(n) == IF n \in Links THEN n ELSE Skel[n].name
ParentOf(n) == IF n \in Links THEN fs.lparent[n] ELSE Skel[n].parent

\* What an I/O operation on a node does besides succeeding:
\*   noread      the directory cannot be listed (read_dir fails)
\*   entry       the listing of the parent yields Err at this entry
\*   kind        DirEntry::file_type fails
\*   readlink    read_link fails
\*   canon       canonicalize fails
\*   meta        metadata fails with an ordinary error
\*   metaUnsup   metadata fails with ErrorKind::Unsupported
\*   mtime       Metadata::modified fails with an ordinary error
\*   mtimeUnsup  Metadata::modified fails with ErrorKind::Unsupported
\*   rm          the node cannot be removed
Faults == {"noread", "entry", "kind", "readlink", "canon", "meta", "metaUnsup",
           "mtime", "mtimeUnsup", "rm"}

\* read_dir(d): the entries of directory node d, in listing order.
ReadDirSeq(d) ==
    SelectSeq(IF fs.forward THEN AllNodes ELSE Reverse(AllNodes),
              LAMBDA n : n \in live /\ ParentOf(n) = d)

\* The node a directory entry resolves to (symbolic links followed), or
\* Dangling.  The trees of Init have no link to a link.
ResolveEntry(n) ==
    IF n \notin live THEN Dangling
    ELSE IF Kind(n) # "link" THEN n
    ELSE IF fs.ltarget[n] \in live THEN fs.ltarget[n] ELSE Dangling

\* The node a path (a sequence of entries below args.path) resolves to.
Resolve(path) == IF path = <<>> THEN RootDir ELSE ResolveEntry(path[Len(path)])

\* dir.join(name): the entry called name in the directory at path dir;
\* that entry need not exist.
Join(dir, name) ==
    LET d == Resolve(dir)
        hit == {n \in live : ParentOf(n) = d /\ Name(n) = name}
    IN  IF hit = {} THEN Append(dir, Dangling) ELSE Append(dir, CHOOSE n \in hit : TRUE)

\* The entry a path names (not following a final symbolic link).
EntryOf(path) == path[Len(path)]

RECURSIVE Descendants(_)
Descendants(n) ==
    {n} \cup UNION {Descendants(c) : c \in {m \in live : ParentOf(m) = n}}

\* ------------------------------------------------ walkdir::WalkDir::new(dir)
\* The items the walk yields, in order: a node (Ok(entry)) or "ERR".
\* Symbolic links are not followed, except the root of the walk.
RECURSIVE Walk(_, _), WalkList(_)
Walk(n, isRoot) ==
    LET d == IF n \notin live THEN Dangling
             ELSE IF Kind(n) = "dir" THEN n
             ELSE IF isRoot /\ Kind(n) = "link" /\ ResolveEntry(n) # Dangling
                     /\ Kind(ResolveEntry(n)) = "dir" THEN ResolveEntry(n)
             ELSE Dangling
    IN  IF n \notin live THEN <<"ERR">>
        ELSE IF isRoot /\ Kind(n) = "link" /\ ResolveEntry(n) = Dangling THEN <<"ERR">>
        ELSE <<n>> \o (IF d = Dangling THEN <<>>
                       ELSE IF fs.fault[d] = "noread" THEN <<"ERR">>
                       ELSE WalkList(ReadDirSeq(d)))
WalkList(es) ==
    IF es = <<>> THEN <<>>
    ELSE (IF fs.fault[Head(es)] = "entry" THEN <<"ERR">> ELSE Walk(Head(es), FALSE))
         \o WalkList(Tail(es))

\* --------------------------------------------------- check_target_dir_date
Decision(tag, n) == [tag |-> tag, size |-> n]

\* Mutant: an entry as old as the cutoff counts as newer.
NewerOrEqual(time, cut) == time >= cut

\* Line 43: time > cutoff.
Newer(time, cut) == time > cut

\* Lines 35-76: the loop over the walk's items, total_size so far in total.
RECURSIVE CheckLoop(_, _, _)
CheckLoop(items, total, cut) ==
    IF items = <<>> THEN Decision("Some", total)                       \* line 77
    ELSE LET e == Head(items) IN
         IF e = "ERR" THEN CheckLoop(Tail(items), total, cut)           \* line 74
         ELSE IF fs.fault[e] = "metaUnsup" THEN Decision("Exit", 0)     \* line 63
         ELSE IF fs.fault[e] = "meta" THEN Decision("None", 0)          \* line 70
         ELSE IF fs.fault[e] = "mtimeUnsup" THEN Decision("Exit", 0)    \* line 50
         ELSE IF fs.fault[e] # "mtime" /\ Newer(fs.mtime[e], cut)
              THEN Decision("None", 0)                                  \* line 44
         ELSE CheckLoop(Tail(items),
                        IF Kind(e) = "file" THEN total + fs.len[e] ELSE total,
                        cut)

check_target_dir_date(dir, cut) == CheckLoop(Walk(EntryOf(dir), TRUE), 0, cut)

\* ------------------------------------------------- fs_extra::dir::get_size
\* None stands for Err.  Symbolic links are not followed; a directory counts
\* for the entries below it.
RECURSIVE GetSize(_), GetSizeList(_)
GetSize(n) ==
    IF n \notin live \/ fs.fault[n] \in {"meta", "metaUnsup"} THEN None
    ELSE IF Kind(n) # "dir" THEN Some(fs.len[n])
    ELSE IF fs.fault[n] = "noread" THEN None
    ELSE GetSizeList(ReadDirSeq(n))
GetSizeList(es) ==
    IF es = <<>> THEN Some(0)
    ELSE LET here == IF fs.fault[Head(es)] = "entry" THEN None ELSE GetSize(Head(es))
             rest == GetSizeList(Tail(es))
         IN  IF here = None \/ rest = None THEN None ELSE Some(here[1] + rest[1])

\* ------------------------------------------------- std::fs::remove_dir_all
\* [ok, gone]: whether the call succeeded and the nodes it removed.  A
\* symbolic link is removed, not followed; the removal stops at the first
\* node that cannot be listed or removed, and what is gone stays gone.
RECURSIVE Remove(_), RemoveList(_)
Remove(n) ==
    IF Kind(n) = "dir" THEN
        IF fs.fault[n] = "noread" THEN [ok |-> FALSE, gone |-> {}]
        ELSE LET below == RemoveList(ReadDirSeq(n)) IN
             IF ~below.ok \/ fs.fault[n] = "rm" THEN [ok |-> FALSE, gone |-> below.gone]
             ELSE [ok |-> TRUE, gone |-> below.gone \cup {n}]
    ELSE IF fs.fault[n] = "rm" THEN [ok |-> FALSE, gone |-> {}]
    ELSE [ok |-> TRUE, gone |-> {n}]
RemoveList(es) ==
    IF es = <<>> THEN [ok |-> TRUE, gone |-> {}]
    ELSE LET here == Remove(Head(es)) IN
         IF ~here.ok THEN here
         ELSE LET rest == RemoveList(Tail(es))
              IN  [ok |-> rest.ok, gone |-> here.gone \cup rest.gone]

remove_dir_all(path) ==
    LET n == EntryOf(path) IN
    IF n \notin live THEN [ok |-> FALSE, gone |-> {}]
    ELSE IF Kind(n) = "file" THEN [ok |-> FALSE, gone |-> {}]
    ELSE Remove(n)

\* ---------------------------------------------------- scan_for_target_dirs
\* Mutant: the target directory is removed whatever actually_delete says.
AfterDeleteAlways(actually_delete, target_path) ==
    live \ remove_dir_all(target_path).gone

\* Mutant: the target directory is never removed.
AfterDeleteKeep(actually_delete, target_path) == live

\* Lines 160-168: the nodes that exist after the branch on actually_delete.
AfterDelete(actually_delete, target_path) ==
    IF actually_delete THEN live \ remove_dir_all(target_path).gone ELSE live

\* Lines 90-137: the loop over the entries of dir.  st holds to_check, the
\* two flags, and whether file_type().unwrap() panicked.
RECURSIVE ReadDirLoop(_, _, _)
ReadDirLoop(dir, entries, st) ==
    IF entries = <<>> THEN st
    ELSE LET e == Head(entries)
             cargo == st.has_cargo_toml \/ Name(e) = "Cargo.toml"       \* line 94
             targ == st.has_target_dir \/ Name(e) = "target"            \* line 96
             isdir ==
                 \/ Kind(e) = "dir"                                     \* line 105
                 \/ /\ Kind(e) = "link"                                 \* line 107
                    /\ fs.fault[e] # "readlink"                         \* line 108
                    /\ ResolveEntry(e) # Dangling                       \* line 115
                    /\ fs.fault[ResolveEntry(e)] \notin {"meta", "metaUnsup"}
                    /\ Kind(ResolveEntry(e)) = "dir"                    \* line 117
         IN  IF fs.fault[e] = "entry" THEN ReadDirLoop(dir, Tail(entries), st)  \* line 135
             ELSE IF cargo /\ targ                                      \* line 99
                  THEN [st EXCEPT !.has_cargo_toml = TRUE, !.has_target_dir = TRUE]
             ELSE IF fs.fault[e] = "kind" THEN [st EXCEPT !.panicked = TRUE]  \* line 103
             ELSE ReadDirLoop(dir, Tail(entries),
                      [st EXCEPT !.has_cargo_toml = cargo, !.has_target_dir = targ,
                                 !.to_check = IF isdir THEN Append(@, Append(dir, e)) ELSE @])

\* Lines 85-140 for the directory at path dir.
ListDir(dir) ==
    LET d == Resolve(dir)
        st0 == [to_check |-> <<>>, has_cargo_toml |-> FALSE, has_target_dir |-> FALSE,
                panicked |-> FALSE]
    IN  IF d = Dangling \/ Kind(d) # "dir" \/ fs.fault[d] = "noread" THEN st0  \* line 139
        ELSE ReadDirLoop(dir, ReadDirSeq(d), st0)

\* Line 176: thing.canonicalize(), None for Err.  A canonical path is the
\* name of the node.
Canonicalize(thing) ==
    IF fs.fault[EntryOf(thing)] = "canon" \/ Resolve(thing) = Dangling THEN None
    ELSE Some(Resolve(thing))

\* Mutant: the check of lines 193-205 never finds the path.
InStackNever(st, p) == FALSE

\* Lines 193-205: is canonical_path on the stack?
InStack(st, p) == \E i \in 1..Len(st) : st[i] = p

\* Lines 196-200: the chain printed, from the first occurrence of
\* canonical_path on the stack to the end of the stack, then canonical_path.
CycleChain(st, p) ==
    LET i == CHOOSE k \in 1..Len(st) : st[k] = p /\ \A j \in 1..(k - 1) : st[j] # p
    IN  Append(SubSeq(st, i, Len(st)), p)

\* Mutant: without a cutoff the age check runs all the same, against time 0.
ShouldDeleteDated(dir, cut) ==
    check_target_dir_date(Join(dir, "target"), IF cut = None THEN 0 ELSE cut[1])

\* Lines 143-153: should_delete for the project at path dir.
ShouldDelete(dir, cut) ==
    LET target_path == Join(dir, "target") IN
    IF cut # None THEN check_target_dir_date(target_path, cut[1])       \* line 144
    ELSE LET sz == GetSize(EntryOf(target_path)) IN                      \* line 146
         IF sz = None THEN Decision("Err", 0) ELSE Decision("Some", sz[1])

\* ------------------------------------------------------------------ state
Top == frames[Len(frames)]

\* A call of scan_for_target_dirs(dir, ..) about to execute line 85.
NewFrame(dir, st) ==
    [dir |-> dir, to_check |-> <<>>, has_cargo_toml |-> FALSE, has_target_dir |-> FALSE,
     total_size |-> 0, at |-> "read_dir", ret |-> 0, stack_at_entry |-> st]

SetTop(f) == [frames EXCEPT ![Len(frames)] = f]
\* Mutants: the test of line 141 looks at one flag only, at either flag, or
\* is never true.
IsLeafTargetOnly(f) == f.has_target_dir
IsLeafEither(f) == f.has_cargo_toml \/ f.has_target_dir
IsLeafNever(f) == FALSE

IsLeaf(f) == f.has_cargo_toml /\ f.has_target_dir                        \* line 141
Ended(how, n) == Append(results, [args |-> args, end |-> how, size |-> n])
Logged(log, x) == [log EXCEPT ![run] = Append(@, x)]

\* ------------------------------------------------------------------- main
\* Lines 213-227: parse the arguments, compute the cutoff, push the root path
\* as written, call scan_for_target_dirs.
Cutoff(days_old) == IF days_old = 0 THEN None ELSE Some(MaxTime - days_old)  \* 216-220

Main ==
    /\ pc # "scanning"
    /\ invocations # <<>>
    /\ args' = Head(invocations)
    /\ invocations' = Tail(invocations)
    /\ run' = run + 1
    /\ cutoff' = Cutoff(Head(invocations).days_old)
    /\ stack' = <<Head(invocations).path>>                              \* line 225
    /\ frames' = <<NewFrame(<<>>, <<Head(invocations).path>>)>>         \* line 227
    /\ pc' = "scanning"
    /\ size' = 0
    /\ steps' = 0
    /\ calls' = Append(calls, <<<<>>>>)
    /\ leaves' = Append(leaves, <<>>)
    /\ reports' = Append(reports, <<>>)
    /\ removals' = Append(removals, <<>>)
    /\ warnings' = Append(warnings, <<>>)
    /\ before' = Append(before, live)
    /\ UNCHANGED <<fs, live, results>>

\* Lines 85-140: list the directory.
ReadDir ==
    /\ pc = "scanning" /\ Top.at = "read_dir"
    /\ LET st == ListDir(Top.dir) IN
       /\ ~st.panicked
       /\ frames' = SetTop([Top EXCEPT !.to_check = st.to_check,
                                       !.has_cargo_toml = st.has_cargo_toml,
                                       !.has_target_dir = st.has_target_dir,
                                       !.at = "decide"])
       /\ leaves' = IF st.has_cargo_toml /\ st.has_target_dir
                     THEN Logged(leaves, Top.dir) ELSE leaves
    /\ steps' = steps + 1
    /\ UNCHANGED <<fs, live, invocations, run, args, cutoff, pc, stack, size,
                   calls, reports, removals, warnings, before, results>>

\* Line 103: file_type().unwrap() on an Err panics; the process ends.
ReadDirPanic ==
    /\ pc = "scanning" /\ Top.at = "read_dir"
    /\ ListDir(Top.dir).panicked
    /\ pc' = "panicked"
    /\ results' = Ended("panicked", 0)
    /\ steps' = steps + 1
    /\ UNCHANGED <<fs, live, invocations, run, args, cutoff, frames, stack, size,
                   calls, leaves, reports, removals, warnings, before>>

\* Mutant: an Unsupported error makes the project return 0 and the scan go on.
LeafExitReturns ==
    /\ pc = "scanning" /\ Top.at = "decide" /\ IsLeaf(Top)
    /\ ShouldDelete(Top.dir, cutoff).tag = "Exit"
    /\ frames' = SetTop([Top EXCEPT !.at = "return", !.ret = 0])
    /\ steps' = steps + 1
    /\ UNCHANGED <<fs, live, invocations, run, args, cutoff, pc, stack, size,
                   calls, leaves, reports, removals, warnings, before, results>>

\* Lines 141-153 with lines 50 and 63: the platform cannot tell the
\* modification time or the metadata; exit(1).
LeafExit ==
    /\ pc = "scanning" /\ Top.at = "decide" /\ IsLeaf(Top)
    /\ ShouldDelete(Top.dir, cutoff).tag = "Exit"
    /\ pc' = "exited"
    /\ results' = Ended("exited", 0)
    /\ steps' = steps + 1
    /\ UNCHANGED <<fs, live, invocations, run, args, cutoff, frames, stack, size,
                   calls, leaves, reports, removals, warnings, before>>

\* Lines 141-153 and 170-172 (or line 150): not to be deleted, return 0.
LeafSkip ==
    /\ pc = "scanning" /\ Top.at = "decide" /\ IsLeaf(Top)
    /\ ShouldDelete(Top.dir, cutoff).tag \in {"None", "Err"}
    /\ frames' = SetTop([Top EXCEPT !.at = "return", !.ret = 0])
    /\ steps' = steps + 1
    /\ UNCHANGED <<fs, live, invocations, run, args, cutoff, pc, stack, size,
                   calls, leaves, reports, removals, warnings, before, results>>

\* Mutant: a removal that fails makes the call return 0.
LeafDeleteZeroOnFailure ==
    /\ pc = "scanning" /\ Top.at = "decide" /\ IsLeaf(Top)
    /\ LET target_path == Join(Top.dir, "target")
           should_delete == ShouldDelete(Top.dir, cutoff)
           rm == remove_dir_all(target_path)
       IN  /\ should_delete.tag = "Some"
           /\ reports' = Logged(reports, [path |-> target_path, size |-> should_delete.size])
           /\ live' = AfterDelete(args.actually_delete, target_path)
           /\ removals' = IF args.actually_delete
                          THEN Logged(removals, [path |-> target_path, ok |-> rm.ok])
                          ELSE removals
           /\ frames' = SetTop([Top EXCEPT !.at = "return",
                                  !.ret = IF args.actually_delete /\ ~rm.ok
                                          THEN 0 ELSE should_delete.size])
    /\ steps' = steps + 1
    /\ UNCHANGED <<fs, invocations, run, args, cutoff, pc, stack, size, calls,
                   leaves, warnings, before, results>>

\* Lines 141-169: report the size, remove the target directory when
\* actually_delete, return the size.
LeafDelete ==
    /\ pc = "scanning" /\ Top.at = "decide" /\ IsLeaf(Top)
    /\ LET target_path == Join(Top.dir, "target")                        \* line 142
           should_delete == ShouldDelete(Top.dir, cutoff)
           rm == remove_dir_all(target_path)                             \* line 161
       IN  /\ should_delete.tag = "Some"                                 \* line 154
           /\ reports' = Logged(reports, [path |-> target_path, size |-> should_delete.size])
           /\ live' = AfterDelete(args.actually_delete, target_path)    \* line 160
           /\ removals' = IF args.actually_delete
                          THEN Logged(removals, [path |-> target_path, ok |-> rm.ok])
                          ELSE removals
           /\ frames' = SetTop([Top EXCEPT !.at = "return", !.ret = should_delete.size])
    /\ steps' = steps + 1
    /\ UNCHANGED <<fs, invocations, run, args, cutoff, pc, stack, size, calls,
                   leaves, warnings, before, results>>

\* Lines 175-182: the next candidate cannot be canonicalized; skip it.
LoopSkipUnresolved ==
    /\ pc = "scanning" /\ Top.at = "decide" /\ ~IsLeaf(Top)
    /\ Top.to_check # <<>>
    /\ Canonicalize(Head(Top.to_check)) = None
    /\ frames' = SetTop([Top EXCEPT !.to_check = Tail(@)])
    /\ steps' = steps + 1
    /\ UNCHANGED <<fs, live, invocations, run, args, cutoff, pc, stack, size,
                   calls, leaves, reports, removals, warnings, before, results>>

\* Lines 193-205: the candidate's canonical path is on the stack; skip it.
LoopSkipCycle ==
    /\ pc = "scanning" /\ Top.at = "decide" /\ ~IsLeaf(Top)
    /\ Top.to_check # <<>>
    /\ Canonicalize(Head(Top.to_check)) # None
    /\ InStack(stack, Canonicalize(Head(Top.to_check))[1])
    /\ warnings' = Logged(warnings, CycleChain(stack, Canonicalize(Head(Top.to_check))[1]))
    /\ frames' = SetTop([Top EXCEPT !.to_check = Tail(@)])
    /\ steps' = steps + 1
    /\ UNCHANGED <<fs, live, invocations, run, args, cutoff, pc, stack, size,
                   calls, leaves, reports, removals, before, results>>

\* Lines 206-207: push the canonical path and call scan_for_target_dirs.
LoopRecurse ==
    /\ pc = "scanning" /\ Top.at = "decide" /\ ~IsLeaf(Top)
    /\ Top.to_check # <<>>
    /\ Len(frames) < MaxDepth
    /\ LET thing == Head(Top.to_check)
           canonical_path == Canonicalize(thing)
       IN  /\ canonical_path # None
           /\ ~InStack(stack, canonical_path[1])
           /\ stack' = Append(stack, canonical_path[1])                  \* line 206
           /\ frames' = Append(SetTop([Top EXCEPT !.to_check = Tail(@)]),
                               NewFrame(thing, Append(stack, canonical_path[1])))
           /\ calls' = Logged(calls, thing)
    /\ steps' = steps + 1
    /\ UNCHANGED <<fs, live, invocations, run, args, cutoff, pc, size,
                   leaves, reports, removals, warnings, before, results>>

\* Line 210: no candidate is left; return total_size.
LoopDone ==
    /\ pc = "scanning" /\ Top.at = "decide" /\ ~IsLeaf(Top)
    /\ Top.to_check = <<>>
    /\ frames' = SetTop([Top EXCEPT !.at = "return", !.ret = Top.total_size])
    /\ steps' = steps + 1
    /\ UNCHANGED <<fs, live, invocations, run, args, cutoff, pc, stack, size,
                   calls, leaves, reports, removals, warnings, before, results>>

\* Mutant: the caller does not pop the stack after the call.
ReturnToCallerNoPop ==
    /\ pc = "scanning" /\ Top.at = "return" /\ Len(frames) > 1
    /\ frames' = [SubSeq(frames, 1, Len(frames) - 1)
                     EXCEPT ![Len(frames) - 1].total_size = @ + Top.ret]
    /\ steps' = steps + 1
    /\ UNCHANGED <<fs, live, invocations, run, args, cutoff, pc, size, stack,
                   calls, leaves, reports, removals, warnings, before, results>>

\* Lines 207-208: the call returns to the loop of its caller, which adds the
\* result to total_size and pops the stack.
ReturnToCaller ==
    /\ pc = "scanning" /\ Top.at = "return" /\ Len(frames) > 1
    /\ frames' = [SubSeq(frames, 1, Len(frames) - 1)
                     EXCEPT ![Len(frames) - 1].total_size = @ + Top.ret]
    /\ stack' = SubSeq(stack, 1, Len(stack) - 1)                         \* line 208
    /\ steps' = steps + 1
    /\ UNCHANGED <<fs, live, invocations, run, args, cutoff, pc, size,
                   calls, leaves, reports, removals, warnings, before, results>>

\* Lines 227-232: the top-level call returns to main, which prints the total.
ReturnToMain ==
    /\ pc = "scanning" /\ Top.at = "return" /\ Len(frames) = 1
    /\ size' = Top.ret
    /\ frames' = <<>>
    /\ pc' = "done"
    /\ results' = Ended("done", Top.ret)
    /\ steps' = steps + 1
    /\ UNCHANGED <<fs, live, invocations, run, args, cutoff, stack,
                   calls, leaves, reports, removals, warnings, before>>

Next ==
    \/ Main
    \/ ReadDir
    \/ ReadDirPanic
    \/ LeafExit
    \/ LeafSkip
    \/ LeafDelete
    \/ LoopSkipUnresolved
    \/ LoopSkipCycle
    \/ LoopRecurse
    \/ LoopDone
    \/ ReturnToCaller
    \/ ReturnToMain

\* ------------------------------------------------------- the worlds of Init
NoFault == [n \in Node |-> "none"]
Fresh(ns) == [n \in Node |-> IF n \in ns THEN MaxTime ELSE 0]
UnitLen == [n \in Node |-> 1]

ATarget == {"/w/a/target", "/w/a/target/f", "/w/a/target/sub", "/w/a/target/sub/g"}
AProject == {"/w/a", "/w/a/Cargo.toml"} \cup ATarget
NProject == {"/w/a/n", "/w/a/n/Cargo.toml", "/w/a/n/target", "/w/a/n/target/k"}
BProject == {"/w/b", "/w/b/Cargo.toml", "/w/b/target", "/w/b/target/h"}
RootTarget == {"/w/target", "/w/target/f"}

\* The runs: a dry run twice, a dry run then a deleting run, a deleting run twice.
Plans == {<<FALSE, FALSE>>, <<FALSE, TRUE>>, <<TRUE, TRUE>>}
Invocations(paths, days, plans) ==
    {[i \in 1..Len(pl) |-> [path |-> p, days_old |-> d, actually_delete |-> pl[i]]] :
        p \in paths, d \in days, pl \in plans}

\* Where the symbolic links are: none, L1 alone, or L1 and L2 (L2 in the root,
\* pointing to a).
LinkSets ==
    {[on |-> {}, lparent |-> [l \in Links |-> "/w"], ltarget |-> [l \in Links |-> Dangling]]}
    \cup
    {[on |-> on, lparent |-> [l \in Links |-> IF l = "L1" THEN lp ELSE "/w"],
      ltarget |-> [l \in Links |-> IF l = "L1" THEN lt ELSE "/w/a"]] :
        on \in {{"L1"}, {"L1", "L2"}}, lp \in {"/w", "/w/a"},
        lt \in {"/w", "/w/a", "/w/a/n", Dangling}}

\* Trees: the root a project or not, a with or without manifest and target,
\* the project n inside a or not, symbolic links to the root, to a, to n or
\* to nothing, the root path written canonically or not, all files old or
\* one of them fresh.
TreeWorlds ==
    {[live |-> {RootDir} \cup rp \cup am \cup ap \cup np \cup lk.on,
      fs |-> [lparent |-> lk.lparent, ltarget |-> lk.ltarget, mtime |-> Fresh(fr),
              len |-> UnitLen, fault |-> NoFault, forward |-> TRUE],
      invocations |-> inv] :
        rp \in {{}, {"/w/Cargo.toml"} \cup RootTarget},
        am \in {{}, {"/w/a/Cargo.toml"}}, ap \in {{}, {"/w/a"}, {"/w/a"} \cup ATarget},
        np \in {{}, NProject},
        lk \in LinkSets, fr \in {{}, {"/w/a/target/f"}, {"/w/a/n/target/k"}},
        inv \in Invocations({"/w", "."}, {0, MaxTime}, Plans)}

\* Ages: the project a, every entry of its target with any modification time
\* and any length, any number of days.
AgeWorlds ==
    {[live |-> {RootDir} \cup AProject,
      fs |-> [lparent |-> [l \in Links |-> "/w"], ltarget |-> [l \in Links |-> Dangling],
              mtime |-> [n \in Node |-> IF n \in ATarget THEN mt[n] ELSE 0],
              len |-> [n \in Node |-> IF n \in DOMAIN ln THEN ln[n] ELSE 1],
              fault |-> NoFault, forward |-> TRUE],
      invocations |-> inv] :
        mt \in [ATarget -> 0..MaxTime],
        ln \in [{"/w/a/target/f", "/w/a/target/sub/g"} -> 1..MaxLen],
        inv \in Invocations({"/w"}, 0..MaxTime, {<<FALSE, TRUE>>})}

\* Faults: the projects a and b and a link to a, one faulty node, either
\* listing order, all files old or one of them fresh.
FaultWorlds ==
    {[live |-> {RootDir, "L1"} \cup AProject \cup BProject,
      fs |-> [lparent |-> [l \in Links |-> "/w"], ltarget |-> [l \in Links |-> "/w/a"],
              mtime |-> Fresh(fr), len |-> UnitLen,
              fault |-> [n \in Node |-> IF n = bad THEN ft ELSE "none"], forward |-> fw],
      invocations |-> inv] :
        bad \in {"L1"} \cup AProject \cup BProject, ft \in Faults, fw \in BOOLEAN,
        fr \in {{}, {"/w/a/target/f"}, {"/w/a/target/sub/g"}},
        inv \in Invocations({"/w"}, {0, MaxTime}, Plans)}

Worlds ==
    {w \in TreeWorlds :
        \A n \in w.live :
            (IF n \in Links THEN w.fs.lparent[n] ELSE Skel[n].parent) \in w.live \cup {"/"}}
    \cup AgeWorlds \cup FaultWorlds

Init ==
    /\ \E w \in Worlds : fs = w.fs /\ live = w.live /\ invocations = w.invocations
    /\ run = 0
    /\ args = [path |-> "", days_old |-> 0, actually_delete |-> FALSE]
    /\ cutoff = None
    /\ pc = "idle"
    /\ frames = <<>>
    /\ stack = <<>>
    /\ size = 0
    /\ steps = 0
    /\ calls = <<>>
    /\ leaves = <<>>
    /\ reports = <<>>
    /\ removals = <<>>
    /\ warnings = <<>>
    /\ before = <<>>
    /\ results = <<>>

Spec == Init /\ [][Next]_vars

\* ================================================================== claims
NoFaults == \A n \in Node : fs.fault[n] = "none"
\* The faults that end the process: exit(1) at lines 50 and 63, the panic of
\* unwrap at line 103.
FatalFault == \E n \in Node : fs.fault[n] \in {"kind", "metaUnsup", "mtimeUnsup"}

\* Some action of the scan is enabled (the guards of the actions, collected):
\* only the cap MaxDepth can stop a scan.
CanStep ==
    /\ frames # <<>>
    /\ \/ Top.at \in {"read_dir", "return"}
       \/ /\ Top.at = "decide"
          /\ \/ IsLeaf(Top)
             \/ Top.to_check = <<>>
             \/ Canonicalize(Head(Top.to_check)) = None
             \/ InStack(stack, Canonicalize(Head(Top.to_check))[1])
             \/ Len(frames) < MaxDepth

HasEntry(d, name) == \E n \in live : ParentOf(n) = d /\ Name(n) = name
\* d directly contains a manifest and a build-output entry.
IsProject(d) == HasEntry(d, "Cargo.toml") /\ HasEntry(d, "target")

RECURSIVE SumLen(_)
SumLen(ns) ==
    IF ns = {} THEN 0
    ELSE LET n == CHOOSE m \in ns : TRUE IN fs.len[n] + SumLen(ns \ {n})
\* Sum of the byte lengths of the regular files below (and including) t.
FileBytes(t) == SumLen({n \in Descendants(t) : Kind(n) = "file"})

\* A call of scan_for_target_dirs has listed its directory, which is a project.
AtProject ==
    /\ pc = "scanning" /\ frames # <<>> /\ Top.at = "decide"
    /\ Resolve(Top.dir) # Dangling
    /\ IsProject(Resolve(Top.dir))
TargetPath == Join(Top.dir, "target")
TargetDir == EntryOf(TargetPath)
\* The call returns n in the next state.
Returns(n) ==
    /\ pc' = "scanning" /\ Len(frames') = Len(frames)
    /\ frames'[Len(frames)].at = "return" /\ frames'[Len(frames)].ret = n
LastOf(log) == log[run][Len(log[run])]

\* C2: deletion safety.  Whenever a path is passed to remove_dir_all or a
\* node disappears, the run has actually_delete, the path is <dir>/target
\* for the directory <dir> being scanned, <dir> directly contains entries
\* named Cargo.toml and target, the target was evaluated as eligible with a
\* size that was reported, and nothing outside <dir>/target disappears.
C2_DeletionSafety ==
    [][(live' # live \/ (run' = run /\ removals' # removals)) =>
        /\ AtProject
        /\ args.actually_delete
        /\ Name(TargetDir) = "target" /\ ParentOf(TargetDir) = Resolve(Top.dir)
        /\ ShouldDelete(Top.dir, cutoff).tag = "Some"
        /\ Len(reports'[run]) = Len(reports[run]) + 1
        /\ LastOf(reports)' = [path |-> TargetPath, size |-> ShouldDelete(Top.dir, cutoff).size]
        /\ Len(removals'[run]) = Len(removals[run]) + 1
        /\ LastOf(removals)'.path = TargetPath
        /\ live' \subseteq live
        /\ (live \ live') \subseteq Descendants(TargetDir)]_vars

\* C2 witness: a deleting run has removed a target directory.
C2_Witness ==
    /\ run >= 1 /\ args.actually_delete
    /\ removals[run] # <<>>
    /\ live # before[run]

\* C3 as claimed: for a project scanned with a cutoff, without I/O faults,
\* whose regular files in the target subtree all have mtime <= cutoff, the
\* call returns the sum of the lengths of these files, and the target
\* directory is removed entirely when actually_delete and kept otherwise.
AllOld(ns) == \A n \in ns : fs.mtime[n] <= cutoff[1]
LeafOutcome ==
    /\ Returns(FileBytes(TargetDir))
    /\ live' = IF args.actually_delete THEN live \ Descendants(TargetDir) ELSE live
C4_FreshFileBlocks ==
    [][(/\ AtProject /\ cutoff # None
        /\ \E n \in Descendants(TargetDir) : Kind(n) = "file" /\ fs.mtime[n] > cutoff[1])
       => /\ live' = live
          /\ frames'[Len(frames)].at = "return" => frames'[Len(frames)].ret = 0]_vars

\* C5 as claimed: without a cutoff, every project reached by the scan
\* returns a size it reports, and its target directory is gone after the
\* call when actually_delete.
C5_AlwaysEligible ==
    [][(AtProject /\ cutoff = None)
       => /\ Returns(frames'[Len(frames)].ret)
          /\ Len(reports'[run]) = Len(reports[run]) + 1
          /\ LastOf(reports)' = [path |-> TargetPath, size |-> frames'[Len(frames)].ret]
          /\ args.actually_delete => Descendants(TargetDir) \cap live' = {}
          /\ ~args.actually_delete => live' = live]_vars

\* C5 amended: without a cutoff, every project the scan finds in a listing
\* (every project, when there is no I/O fault) is evaluated without regard
\* to modification times.  When the size query succeeds, the size (the sum
\* of the file lengths, when there is no fault) is reported and returned
\* and, when actually_delete, remove_dir_all is called on the target, which
\* is gone if the call succeeds.  When the size query fails, the call
\* returns 0 and nothing is reported or removed.
C5_EligibleIfSized ==
    [][(AtProject /\ cutoff = None /\ (IsLeaf(Top) \/ NoFaults))
       => LET sz == GetSize(TargetDir) IN
          IF sz # None
          THEN /\ Returns(sz[1])
               /\ NoFaults => sz[1] = FileBytes(TargetDir)
               /\ Len(reports'[run]) = Len(reports[run]) + 1
               /\ LastOf(reports)' = [path |-> TargetPath, size |-> sz[1]]
               /\ IF args.actually_delete
                  THEN /\ Len(removals'[run]) = Len(removals[run]) + 1
                       /\ LastOf(removals)'.path = TargetPath
                       /\ LastOf(removals)'.ok => Descendants(TargetDir) \cap live' = {}
                       /\ NoFaults => LastOf(removals)'.ok
                  ELSE live' = live /\ removals' = removals
          ELSE /\ Returns(0)
               /\ live' = live /\ removals' = removals /\ reports' = reports]_vars

\* C5 witness: without a cutoff, a project with a file modified now has
\* been removed, and its size is returned.
C5_Witness ==
    /\ pc = "scanning" /\ frames # <<>> /\ Top.at = "return"
    /\ cutoff = None /\ args.actually_delete
    /\ Top.dir # <<>> /\ EntryOf(Top.dir) = "/w/a"
    /\ fs.mtime["/w/a/target/f"] = MaxTime
    /\ "/w/a/target" \in before[run] /\ "/w/a/target" \notin live
    /\ Top.ret = fs.len["/w/a/target/f"] + fs.len["/w/a/target/sub/g"]

\* --------------------------------------------------------- whole runs
Dry(i) == ~results[i].args.actually_delete
ReportedDirs(i) == {EntryOf(reports[i][k].path) : k \in 1..Len(reports[i])}
RemovedDirs(i) == {EntryOf(removals[i][k].path) : k \in 1..Len(removals[i])}
Prefix(p, q) == Len(p) <= Len(q) /\ SubSeq(q, 1, Len(p)) = p

\* C6: a dry run changes nothing in the file system, and two dry runs on the
\* same tree with the same cutoff end the same way with the same total.
C6_DryRunPure ==
    /\ (run >= 1 /\ ~args.actually_delete) => live = before[run]
    /\ \A i, j \in 1..Len(results) :
           (/\ Dry(i) /\ Dry(j) /\ before[i] = before[j]
            /\ results[i].args = results[j].args)
           => /\ results[i].end = results[j].end
              /\ results[i].size = results[j].size
              /\ reports[i] = reports[j]

\* C6 witness: two dry runs have returned, with a total that is not 0.
C6_Witness ==
    /\ Len(results) > 1
    /\ Dry(1) /\ Dry(Len(results))
    /\ results[1].end = "done" /\ results[1].size > 0

\* C7 as claimed: without I/O faults, a dry run followed by a deleting run on
\* the same tree with the same cutoff: the build-output directories the dry
\* run reports are those the deleting run removes, and the totals are equal.
C7_DryRunPredicts ==
    \A i, j \in 1..Len(results) :
        (/\ NoFaults /\ i < j /\ Dry(i) /\ ~Dry(j)
         /\ before[i] = before[j]
         /\ results[i].end = "done" /\ results[j].end = "done")
        => /\ results[i].size = results[j].size
           /\ ReportedDirs(i) = RemovedDirs(j)

\* No directory of the set ns of nodes directly contains both a manifest
\* and a build-output entry.
NoPair(ns) ==
    \A d \in ns :
        ~ /\ \E m \in ns : ParentOf(m) = d /\ Name(m) = "Cargo.toml"
          /\ \E t \in ns : ParentOf(t) = d /\ Name(t) = "target"

\* C8: in a tree without any manifest/build-output pair, a run removes
\* nothing, reports nothing, every call returns 0 and so does the scan,
\* whatever the cutoff and actually_delete.
C8_NoPairNothing ==
    (run >= 1 /\ NoPair(before[run]))
    => /\ live = before[run]
       /\ removals[run] = <<>> /\ reports[run] = <<>>
       /\ \A k \in 1..Len(frames) : frames[k].total_size = 0 /\ frames[k].ret = 0
       /\ pc = "done" => size = 0

\* C8 witness: a deleting run over a tree without pair, in which a has a
\* target directory and no manifest, has returned after scanning into it.
C8_Witness ==
    /\ pc = "done" /\ args.actually_delete
    /\ NoPair(before[run])
    /\ "/w/a/target" \in live /\ "/w/a/Cargo.toml" \notin live
    /\ \E k \in 1..Len(calls[run]) :
           calls[run][k] # <<>> /\ EntryOf(calls[run][k]) = "/w/a/target/sub"

\* A node of the tree is a project strictly below directory d.
NestedBelow(d) ==
    {x \in before[run] : x # d /\ d \in Descendants(d) /\ x \in Descendants(d)
                         /\ Kind(x) = "dir" /\ IsProject(x)}

C10_ErrorsAbsorbed ==
    (\A n \in Node : fs.fault[n] \notin {"metaUnsup", "mtimeUnsup"})
    => pc \notin {"exited", "panicked"}

\* ------------------------------------------- errors while evaluating a target
\* The items of the walk of the target of the project being scanned.
TargetWalk == Walk(TargetDir, TRUE)

\* The walk of the target meets an ordinary I/O error: it yields an Err
\* item, or it yields an entry whose metadata or modification time cannot be
\* read for a reason other than Unsupported.
OrdinaryErrorMet ==
    \E i \in 1..Len(TargetWalk) :
        \/ TargetWalk[i] = "ERR"
        \/ fs.fault[TargetWalk[i]] \in {"meta", "mtime"}

\* C11 as claimed: when the evaluation of a project's target against the
\* cutoff meets an ordinary I/O error (metadata, modification time, or access
\* to an entry during the walk), the decision is NotEligible: the call
\* returns 0, nothing is reported, remove_dir_all is not called and nothing
\* disappears.
C11_OrdinaryErrorNotEligible ==
    [][(/\ AtProject /\ IsLeaf(Top) /\ cutoff # None
        /\ \A n \in Node : fs.fault[n] \notin {"metaUnsup", "mtimeUnsup"}
        /\ OrdinaryErrorMet)
       => /\ Returns(0)
          /\ live' = live /\ reports' = reports /\ removals' = removals]_vars

\* The walk of the target comes to an entry for which the platform reports
\* Unsupported (metadata or modification time) before anything ends the
\* evaluation: no entry before it is newer than the cutoff or has metadata
\* that cannot be read.
UnsupportedMet ==
    \E i \in 1..Len(TargetWalk) :
        /\ TargetWalk[i] # "ERR"
        /\ fs.fault[TargetWalk[i]] \in {"metaUnsup", "mtimeUnsup"}
        /\ \A j \in 1..(i - 1) :
               \/ TargetWalk[j] = "ERR"
               \/ fs.fault[TargetWalk[j]] = "mtime"
               \/ /\ fs.fault[TargetWalk[j]] # "meta"
                  /\ fs.mtime[TargetWalk[j]] <= cutoff[1]

\* The process ends at once: exit(1), no summary, and the step scans,
\* reports and removes nothing.
Aborts ==
    /\ pc' = "exited"
    /\ results' = Append(results, [args |-> args, end |-> "exited", size |-> 0])
    /\ UNCHANGED <<live, calls, leaves, reports, removals, warnings, frames, stack, size>>

\* After exit(1) the process does nothing more: the only step left is the
\* start of another process, which leaves the file system and what the
\* ended run has scanned, reported and removed as they are.
NothingAfterExit ==
    pc = "exited" =>
        /\ run' = run + 1 /\ live' = live /\ results' = results
        /\ calls'[run] = calls[run] /\ reports'[run] = reports[run]
        /\ removals'[run] = removals[run]

\* C12 as claimed: when the evaluation of a target against the cutoff meets
\* an Unsupported error, at any depth, the process ends at once with
\* exit(1): nothing more is scanned or removed, no summary is produced, and
\* the run has reported nothing at all.
C12_AbortsNoPartialResults ==
    [][/\ (AtProject /\ IsLeaf(Top) /\ cutoff # None /\ UnsupportedMet)
          => (Aborts /\ reports[run] = <<>>)
       /\ NothingAfterExit]_vars

\* C12 amended: the same, except that what the run reported and removed
\* before the error stays reported and removed; only the total is never
\* reported.
C12_UnsupportedAborts ==
    [][/\ (AtProject /\ IsLeaf(Top) /\ cutoff # None /\ UnsupportedMet) => Aborts
       /\ NothingAfterExit
       /\ pc' = "exited" => (size' = 0 /\ results'[run'].end = "exited")]_vars

\* C12 witness: the process has exited two calls deep, after it had reported
\* and removed the target of another project, with a directory left unscanned.
C12_Witness ==
    /\ pc = "exited" /\ Len(frames) >= 2
    /\ args.actually_delete
    /\ reports[run] # <<>> /\ "/w/b/target" \notin live
    /\ frames[1].to_check # <<>>

\* ------------------------------------------------------- a removal that fails
\* The directories directly in the root when the run started.
RootDirs == {n \in before[run] : ParentOf(n) = RootDir /\ Kind(n) = "dir"}

\* C13: when remove_dir_all fails on the target of an eligible project, the
\* scan goes on: the call reports and returns the size measured before the
\* removal was attempted (the sum of the file lengths as they were, when
\* nothing but the removal fails), the calls below it on the call stack are
\* as they were, and a run in which a removal failed still returns to main
\* after scanning every directory of a root that is not itself a project.
C13_RemovalFailureNotFatal ==
    [][/\ (/\ AtProject /\ IsLeaf(Top) /\ args.actually_delete
           /\ ShouldDelete(Top.dir, cutoff).tag = "Some"
           /\ ~remove_dir_all(TargetPath).ok)
          => /\ Returns(ShouldDelete(Top.dir, cutoff).size)
             /\ (\A n \in Node : fs.fault[n] \in {"none", "rm"})
                => frames'[Len(frames)].ret = FileBytes(TargetDir)
             /\ LastOf(reports)' = [path |-> TargetPath,
                                    size |-> ShouldDelete(Top.dir, cutoff).size]
             /\ LastOf(removals)' = [path |-> TargetPath, ok |-> FALSE]
             /\ SubSeq(frames', 1, Len(frames) - 1) = SubSeq(frames, 1, Len(frames) - 1)
       /\ (/\ run >= 1 /\ run' = run
           /\ \E k \in 1..Len(removals[run]) : ~removals[run][k].ok
           /\ \A n \in Node : fs.fault[n] \in {"none", "rm", "noread"})
          => /\ pc' # "exited" /\ pc' # "panicked"
             /\ (pc' = "done" /\ \A i \in 1..Len(leaves[run]) : leaves[run][i] # <<>>)
                => \A d \in RootDirs : \E c \in 1..Len(calls[run]) : calls[run][c] = <<d>>
      ]_vars

\* C13 witness: the removal of a's target has failed half way, the size
\* measured before it was added to the caller's total, and the scan is in
\* the sibling b.
C13_Witness ==
    /\ pc = "scanning" /\ Len(frames) = 2 /\ Top.dir = <<"/w/b">>
    /\ \E k \in 1..Len(removals[run]) :
           /\ ~removals[run][k].ok
           /\ EntryOf(removals[run][k].path) = "/w/a/target"
    /\ "/w/a/target" \in live /\ "/w/a/target/f" \notin live
    /\ frames[1].total_size >= 2

\* ------------------------------------------------------------ the cycle guard
\* The next candidate of the loop of lines 175-209 resolves to a path that
\* is on the stack.
CandidateOnStack ==
    /\ pc = "scanning" /\ frames # <<>> /\ Top.at = "decide" /\ ~IsLeaf(Top)
    /\ Top.to_check # <<>>
    /\ Canonicalize(Head(Top.to_check)) # None
    /\ \E i \in 1..Len(stack) : stack[i] = Canonicalize(Head(Top.to_check))[1]

\* The directories of the active calls, outermost first.
DescentDirs == [i \in 1..Len(frames) |-> Resolve(frames[i].dir)]

\* C14 as claimed: a candidate whose canonical path is on the stack is not
\* descended into, adds nothing to the total and leaves the stack as it is;
\* the stack never holds the same path twice, and no directory is entered
\* while it is the directory of a call still active.
C14_CycleGuard ==
    [][/\ CandidateOnStack
          => /\ stack' = stack /\ calls' = calls
             /\ Len(frames') = Len(frames)
             /\ frames' = SetTop([Top EXCEPT !.to_check = Tail(@)])
       /\ \A i, j \in 1..Len(stack') : i < j => stack'[i] # stack'[j]
       /\ pc' = "scanning" =>
              \A i, j \in 1..Len(frames') : i < j => DescentDirs'[i] # DescentDirs'[j]
      ]_vars

\* ----------------------------------------------------------- stack discipline
\* C15: while calls of scan_for_target_dirs are active, the stack holds the
\* root entry pushed by main and, above it, one entry per recursive call
\* still active, the canonical path of that call's directory, so its length
\* is the recursion depth plus one; the part of the stack up to a call's
\* entry is what it was when the call was entered, so that a call that
\* returns hands the stack back as it received it; and when the top-level
\* call has returned the stack holds the root entry alone.
C15_StackDiscipline ==
    /\ frames # <<>> =>
           /\ Len(stack) = Len(frames)
           /\ stack[1] = args.path
           /\ \A i \in 1..Len(frames) :
                  /\ frames[i].stack_at_entry = SubSeq(stack, 1, i)
                  /\ i > 1 => stack[i] = Resolve(frames[i].dir)
           /\ Top.stack_at_entry = stack
    /\ pc = "done" => stack = <<args.path>>

\* C15 witness: a call two levels deep is about to return after a call it
\* made itself has returned, and the stack is the one it was entered with.
C15_Witness ==
    /\ pc = "scanning" /\ Len(frames) = 3 /\ Top.at = "return"
    /\ Top.stack_at_entry = stack /\ Len(stack) = 3
    /\ \E k \in 1..Len(calls[run]) :
           Len(calls[run][k]) > Len(Top.dir) /\ Prefix(Top.dir, calls[run][k])

\* ------------------------------------------------- no false cycle, sibling links
RECURSIVE SumSizes(_)
SumSizes(rs) == IF rs = <<>> THEN 0 ELSE Head(rs).size + SumSizes(Tail(rs))

\* The next candidate of the loop of lines 175-209 is a symbolic link, a
\* sibling link of the same directory resolves to the same directory, and
\* that directory is not the directory of an active call.
SiblingLinkNext ==
    /\ pc = "scanning" /\ frames # <<>> /\ Top.at = "decide" /\ ~IsLeaf(Top)
    /\ Top.to_check # <<>>
    /\ LET e == EntryOf(Head(Top.to_check)) IN
       /\ e \in Links /\ e \in live
       /\ ResolveEntry(e) # Dangling
       /\ \E o \in (Links \cap live) \ {e} :
              ParentOf(o) = ParentOf(e) /\ ResolveEntry(o) = ResolveEntry(e)
       /\ \A i \in 1..Len(frames) : DescentDirs[i] # ResolveEntry(e)

\* C16: a candidate is skipped as a cycle only when its canonical path is the
\* directory of a call still active; a symbolic link with a sibling link to
\* the same directory, that directory not being on the descent path, is
\* descended into, whether its sibling was visited before or not; and the
\* total the run returns is the sum of the sizes reported on all the visits.
C16_NoFalseCycle ==
    [][/\ (run' = run /\ warnings' # warnings)
          => \E i \in 1..Len(frames) :
                 DescentDirs[i] = Canonicalize(Head(Top.to_check))[1]
       /\ (SiblingLinkNext /\ NoFaults)
          => /\ Len(frames') = Len(frames) + 1
             /\ frames'[Len(frames')].dir = Head(Top.to_check)
             /\ calls' = Logged(calls, Head(Top.to_check))
             /\ warnings' = warnings
       /\ pc' = "done" => size' = SumSizes(reports'[run'])
      ]_vars

\* C16 witness: a dry run without cutoff over a root holding the project a
\* and two links to a has returned: both links and a were descended into,
\* nothing was skipped as a cycle, and the total is three times a's size.
C16_Witness ==
    /\ pc = "done" /\ ~args.actually_delete /\ cutoff = None
    /\ {"L1", "L2"} \subseteq live
    /\ ParentOf("L1") = RootDir /\ ParentOf("L2") = RootDir
    /\ ResolveEntry("L1") = "/w/a" /\ ResolveEntry("L2") = "/w/a"
    /\ \A p \in {<<"L1">>, <<"L2">>, <<"/w/a">>} :
           \E k \in 1..Len(calls[run]) : calls[run][k] = p
    /\ warnings[run] = <<>>
    /\ Len(reports[run]) = 3
    /\ size = 3 * FileBytes("/w/a/target") /\ size > 0

\* ------------------------------------------------------ two deleting runs
\* Directory x lies strictly below directory d.
RECURSIVE Below(_, _)
Below(x, d) ==
    /\ x \in DOMAIN Skel
    /\ \/ Skel[x].parent = d
       \/ Below(Skel[x].parent, d)

\* Within the set ns of nodes, d directly contains a manifest and a
\* build-output entry.
ProjectIn(ns, d) ==
    /\ \E m \in ns : ParentOf(m) = d /\ Name(m) = "Cargo.toml"
    /\ \E t \in ns : ParentOf(t) = d /\ Name(t) = "target"

\* Run j is a second deleting run after the deleting run i, same root and
\* same cutoff, both completed, no I/O fault.
DeleteTwice(i, j) ==
    /\ NoFaults /\ i < j /\ ~Dry(i) /\ ~Dry(j)
    /\ results[i].args = results[j].args
    /\ results[i].end = "done" /\ results[j].end = "done"

\* The directories whose target run i passed to remove_dir_all.
RemovedProjects(i) == {ParentOf(t) : t \in RemovedDirs(i)}

\* C17 as claimed: a second deleting run returns 0 and removes nothing.
C17_DeleteIdempotent ==
    \A i, j \in 1..Len(results) :
        DeleteTwice(i, j)
        => /\ results[j].size = 0
           /\ removals[j] = <<>> /\ reports[j] = <<>>
           /\ j = run => live = before[j]

\* C17 amended: the second deleting run returns 0 and removes nothing when
\* no project whose target the first run removed contained another project;
\* in any case what the second run removes are targets of projects that lay
\* below a project whose target the first run removed.
C17_IdempotentUnlessNested ==
    \A i, j \in 1..Len(results) :
        DeleteTwice(i, j)
        => /\ (\A d \in RemovedProjects(i) :
                   \A x \in before[i] : ~(Below(x, d) /\ ProjectIn(before[i], x)))
              => /\ results[j].size = 0
                 /\ removals[j] = <<>> /\ reports[j] = <<>>
                 /\ j = run => live = before[j]
           /\ \A x \in RemovedProjects(j) :
                  \E d \in RemovedProjects(i) : Below(x, d) /\ ProjectIn(before[i], x)

\* C17 witness: two deleting runs over a tree with a project in it and no
\* nested project have returned; the first removed a target and returned
\* its size, the second returned 0.
C17_Witness ==
    /\ Len(results) = 2 /\ DeleteTwice(1, 2)
    /\ results[1].size > 0 /\ removals[1] # <<>>
    /\ "/w/a/target" \in before[1] /\ "/w/a/target" \notin live
    /\ "/w/a/n" \notin before[1]
    /\ results[2].size = 0

====
